---- MODULE Spec2Model ----
(***************************************************************************)
(* SocialWeave backend: the relational store (users, follow edges, posts,  *)
(* likes) and the request handlers of backend/main.py that read and write  *)
(* it.  A handler is a sequence of store round trips (session.get,         *)
(* session.exec(select ...), session.commit); every round trip is one      *)
(* atomic step, so that two requests served by two sessions interleave     *)
(* between round trips exactly as two worker threads do.  A read returns   *)
(* the rows committed so far; a commit that breaks a key or a unique       *)
(* constraint raises, and nothing in the handlers catches it.              *)
(***************************************************************************)
EXTENDS Integers, Sequences, FiniteSets, Bags, TLC

\* Bounds of the model: how many users may register, how many posts and
\* comments may be created.
MaxUsers == 2
MaxPosts == 2
MaxComments == 2
\* How many minutes past the life of a token issued at time 0 the clock runs.
MaxLateness == 2
\* Rows of posts, comments, likes and follows together, where a run is
\* limited by the size of the whole store.
MaxRows == 2
\* ACCESS_TOKEN_EXPIRE_MINUTES of auth.py.
ACCESS_TOKEN_EXPIRE_MINUTES == 30
\* How many distinct emails, and usernames, registration bodies draw from.
NumIdents == 3

VARIABLES
    users,    \* table user: sequence of rows in insertion order
    posts,    \* table post: sequence of rows in insertion order
    follows,  \* table follow: bag of rows (follower_id, followed_id)
    likes,    \* table like: bag of rows (user_id, post_id)
    comments, \* table comment: sequence of rows in insertion order
    req,      \* req[s]: the request session s is serving, and its position
    last,     \* the previous completed request (history)
    now,      \* the wall clock, in minutes
    held,     \* the token a client keeps from a login (at most one row)
    files     \* the names of the files in the upload directory

vars == <<users, posts, follows, likes, comments, req, last, now, held, files>>

\* The sessions (worker threads) of the service.
OneSession == {1}
TwoSessions == {1, 2}
AllSessions == TwoSessions

UserIds == 1..MaxUsers
PostIds == 1..MaxPosts
CommentIds == 1..MaxComments
Emails == 1..NumIdents
Usernames == 1..NumIdents
\* The password every registration body carries, and a wrong one.
RegisteredPassword == "secret"
Passwords == {RegisteredPassword, "guess"}
Times == 0..(ACCESS_TOKEN_EXPIRE_MINUTES + MaxLateness)
Filenames == {"a.png"}

-----------------------------------------------------------------------------
\* Rows

UserRow(id, email, username, hashed_password) ==
    [id |-> id, email |-> email, username |-> username,
     hashed_password |-> hashed_password]
PostRow(id, user_id) == [id |-> id, user_id |-> user_id]
FollowRow(follower_id, followed_id) ==
    [follower_id |-> follower_id, followed_id |-> followed_id]
LikeRow(user_id, post_id) == [user_id |-> user_id, post_id |-> post_id]
\* The comment table has the columns id, text, user_id and post_id; a
\* parent_comment_id handed to the constructor is no column and is not stored.
CommentRow(id, user_id, post_id, parent_comment_id) ==
    [id |-> id, user_id |-> user_id, post_id |-> post_id]

-----------------------------------------------------------------------------
\* The store

Max(S) == CHOOSE x \in S : \A y \in S : y <= x

\* The integer primary key the store assigns to a new row.
NextId(table) ==
    IF table = <<>> THEN 1 ELSE Max({table[i].id : i \in 1..Len(table)}) + 1

\* session.get(Model, id): the row with that primary key, as a sequence of
\* at most one row (empty stands for None).
Get(table, id) ==
    LET Hit(row) == row.id = id
        rows == SelectSeq(table, Hit)
    IN  IF rows = <<>> THEN <<>> ELSE <<rows[1]>>

\* A handler that takes every session.get result for a row.
NeverNotFound(row) == FALSE

\* `if not row:` on the result of session.get, where the handler raises 404.
NotFound(row) == row = <<>>

\* Rows of a bag table that equal `row`, as a sequence of at most one row
\* (select(...).where(both key columns match).first()).
FirstInBag(bag, row) == IF BagIn(row, bag) THEN <<row>> ELSE <<>>

InsertRow(bag, row) == bag (+) SetToBag({row})

\* DELETE ... WHERE the key columns match: every matching row goes.
DeleteRow(bag, row) == [x \in (DOMAIN bag) \ {row} |-> bag[x]]

\* unique=True on user.email and user.username.
UserUniqueViolated(table, email, username) ==
    \E i \in 1..Len(table) :
        table[i].email = email \/ table[i].username = username

\* Composite primary key (follower_id, followed_id) of follow.
FollowPKViolated(bag, row) == BagIn(row, bag)

\* The like table declared without its composite primary key.
LikeNoPrimaryKey(bag, row) == FALSE

\* Composite primary key (user_id, post_id) of like.
LikePKViolated(bag, row) == BagIn(row, bag)

\* User.following: the users joined through follow rows whose follower_id is
\* user_id, as a list of ids.
RECURSIVE SetToSeq(_)
SetToSeq(S) ==
    IF S = {} THEN <<>>
    ELSE LET m == CHOOSE x \in S : \A y \in S : x <= y
         IN  <<m>> \o SetToSeq(S \ {m})

\* The relationship with primaryjoin and secondaryjoin exchanged (the
\* followers of the user).
FollowingJoinsSwapped(user_id) ==
    SetToSeq({f.follower_id : f \in {g \in BagToSet(follows) : g.followed_id = user_id}})

Following(user_id) ==
    SetToSeq({f.followed_id : f \in {g \in BagToSet(follows) : g.follower_id = user_id}})

SeqToSet(s) == {s[i] : i \in 1..Len(s)}

\* ORDER BY id (ascending).
RECURSIVE OrderByIdAsc(_)
OrderByIdAsc(rows) ==
    IF rows = <<>> THEN <<>>
    ELSE LET low == CHOOSE i \in 1..Len(rows) :
                        \A j \in 1..Len(rows) : rows[i].id <= rows[j].id
             Keep(row) == row.id # rows[low].id
         IN  <<rows[low]>> \o OrderByIdAsc(SelectSeq(rows, Keep))

\* ORDER BY id DESC.
RECURSIVE OrderByIdDesc(_)
OrderByIdDesc(rows) ==
    IF rows = <<>> THEN <<>>
    ELSE LET top == CHOOSE i \in 1..Len(rows) :
                        \A j \in 1..Len(rows) : rows[j].id <= rows[i].id
             Keep(row) == row.id # rows[top].id
         IN  <<rows[top]>> \o OrderByIdDesc(SelectSeq(rows, Keep))

\* select(Post).where(Post.user_id.in_(ids)).order_by(Post.id.desc())
SelectFeed(table, ids) ==
    LET InScope(row) == row.user_id \in SeqToSet(ids)
    IN  OrderByIdDesc(SelectSeq(table, InScope))

-----------------------------------------------------------------------------
\* Requests

NoSnap == [users |-> <<>>, posts |-> <<>>, follows |-> EmptyBag, likes |-> EmptyBag,
           comments |-> <<>>, files |-> {}]
Snapshot == [users |-> users, posts |-> posts, follows |-> follows, likes |-> likes,
             comments |-> comments, files |-> files]

\* A bearer token: the claims of the JWT (user_id, absent when empty;
\* username; exp) and whether its signature is the one SECRET_KEY gives for
\* these claims.
Token(user_id, username, exp, signed) ==
    [user_id |-> user_id, username |-> username, exp |-> exp, signed |-> signed]

NoToken == Token(<<>>, 0, 0, FALSE)

Idle ==
    [pc |-> "idle", op |-> "none", token |-> NoToken, current_user |-> 0, arg |-> 0,
     parent |-> <<>>, email |-> 0, username |-> 0, password |-> "", filename |-> "",
     existing |-> <<>>, following_ids |-> <<>>,
     status |-> 0, detail |-> "", www_authenticate |-> "", access_token |-> NoToken,
     liked |-> FALSE, feed |-> <<>>, pre |-> NoSnap]

NoLast == [op |-> "none", user |-> 0, arg |-> 0, status |-> 0, detail |-> "",
           www_authenticate |-> "", email |-> 0, password |-> "",
           liked |-> FALSE, pre |-> NoSnap]

\* A request is handed to the lowest idle session of the pool S.
CanBegin(S, s) ==
    /\ s \in S
    /\ req[s].pc = "idle"
    /\ \A t \in S : t < s => req[t].pc # "idle"

\* Requests of kind `op` that have arrived and not yet committed.
Pending(op) ==
    Cardinality({s \in AllSessions : req[s].op = op /\ req[s].pc # "done"})

\* raise HTTPException(status_code, detail) / return with a status code.
Respond(s, status, detail) ==
    [req[s] EXCEPT !.pc = "done", !.status = status, !.detail = detail]

\* An exception no handler catches: the framework answers 500.
Unhandled(s) == Respond(s, 500, "Internal Server Error")

\* security.hash_password: a one-way hash of the password.
HashPassword(password) == <<"hash", password>>

\* security.verify_password: the hash is the hash of this password.
VerifyPassword(password, hashed_password) == hashed_password = HashPassword(password)

\* create_access_token: the claims plus exp = now + 30 minutes, signed with
\* SECRET_KEY.
CreateAccessToken(data) ==
    Token(data.user_id, data.username, now + ACCESS_TOKEN_EXPIRE_MINUTES, TRUE)

\* jwt.decode checks the signature against SECRET_KEY ...
\* A decode that does not verify the signature.
SignatureUnchecked(token) == TRUE

SignatureValid(token) == token.signed

\* ... and the exp claim against the clock: a token is refused once the
\* clock reads later than exp.
Expired(exp, t) == exp < t

\* A resolution that trusts the user_id of the payload without fetching the
\* user.
GetCurrentUserUnfetched(token) ==
    IF ~SignatureValid(token) \/ Expired(token.exp, now) THEN <<>>
    ELSE IF token.user_id = <<>> THEN <<>>
    ELSE <<[id |-> token.user_id[1]]>>

\* get_current_user: the user the token resolves to, as a sequence of at most
\* one row; empty when credentials_exception is raised.
GetCurrentUser(token) ==
    IF ~SignatureValid(token) \/ Expired(token.exp, now) THEN <<>>
    ELSE IF token.user_id = <<>> THEN <<>>
    ELSE Get(users, token.user_id[1])

\* The token a login of user user_id, whose username is the same number, has
\* returned at time 0.
SignedToken(user_id) == Token(<<user_id>>, user_id, ACCESS_TOKEN_EXPIRE_MINUTES, TRUE)

Bearer(ids) == {SignedToken(user_id) : user_id \in ids}

FirstStep(op) ==
    CASE op = "follow" -> "fol_get"
      [] op = "create_post" -> "post_commit"
      [] op = "toggle_like" -> "like_get"
      [] op = "feed" -> "feed_following"
      [] op = "create_comment" -> "com_get"
      [] op = "me" -> "me_return"
      [] op = "upload" -> "upload_write"

\* POST /register arrives with a body (email, username, password).
BeginRegister(S, s, E, N, hist) ==
    /\ CanBegin(S, s)
    /\ \E e \in E, n \in N :
        req' = [req EXCEPT ![s] = [Idle EXCEPT !.pc = "reg_check", !.op = "register",
                    !.email = e, !.username = n, !.password = RegisteredPassword,
                    !.pre = IF hist THEN Snapshot ELSE NoSnap]]
    /\ UNCHANGED <<users, posts, follows, likes, comments, last, now, held, files>>

\* A request to an endpoint that depends on get_current_user arrives with a
\* bearer token and a path id `arg`.
BeginAuthed(S, s, op, T, A, hist) ==
    /\ CanBegin(S, s)
    /\ \E tok \in T, a \in A :
        req' = [req EXCEPT ![s] = [Idle EXCEPT !.pc = "auth", !.op = op,
                    !.token = tok, !.arg = a,
                    !.pre = IF hist THEN Snapshot ELSE NoSnap]]
    /\ UNCHANGED <<users, posts, follows, likes, comments, last, now, held, files>>

Auth(s) ==
    /\ req[s].pc = "auth"
    /\ LET user == GetCurrentUser(req[s].token)
       IN  req' = [req EXCEPT ![s] =
                IF user = <<>>
                THEN [Respond(s, 401, "Could not validate credentials")
                        EXCEPT !.www_authenticate = "Bearer"]
                ELSE [req[s] EXCEPT !.pc = FirstStep(req[s].op),
                                    !.current_user = user[1].id]]
    /\ UNCHANGED <<users, posts, follows, likes, comments, last, now, held, files>>

\* POST /login arrives with a body (email, password).
BeginLogin(S, s, E, hist) ==
    /\ CanBegin(S, s)
    /\ \E e \in E, p \in Passwords :
        req' = [req EXCEPT ![s] = [Idle EXCEPT !.pc = "login_select", !.op = "login",
                    !.email = e, !.password = p,
                    !.pre = IF hist THEN Snapshot ELSE NoSnap]]
    /\ UNCHANGED <<users, posts, follows, likes, comments, last, now, held, files>>

\* login_user: select(User).where(User.email == login_info.email).first()
UserByEmail(email) ==
    LET Hit(row) == row.email = email
        rows == SelectSeq(users, Hit)
    IN  IF rows = <<>> THEN <<>> ELSE <<rows[1]>>

\* A login that tells the caller which of the two checks failed.
LoginFailureDetailByCause(user) ==
    IF user = <<>> THEN "Unknown email" ELSE "Incorrect password"

\* login_user: the detail of the 401 it raises.
LoginFailureDetail(user) == "Incorrect email or password"

\* A token payload that names the first user of the table.
TokenDataFirstUser(user) == [user_id |-> <<users[1].id>>, username |-> user.username]

\* login_user: token_data = {"user_id": user.id, "username": user.username}
TokenData(user) == [user_id |-> <<user.id>>, username |-> user.username]

\* login_user: the select, the password check, the token.
LoginSelect(s) ==
    /\ req[s].pc = "login_select"
    /\ LET user == UserByEmail(req[s].email)
       IN  req' = [req EXCEPT ![s] =
                IF user = <<>> \/ ~VerifyPassword(req[s].password, user[1].hashed_password)
                THEN [Respond(s, 401, LoginFailureDetail(user))
                        EXCEPT !.www_authenticate = "Bearer", !.existing = user]
                ELSE [Respond(s, 200, "")
                        EXCEPT !.existing = user,
                               !.access_token = CreateAccessToken(TokenData(user[1]))]]
    /\ UNCHANGED <<users, posts, follows, likes, comments, last, now, held, files>>

\* read_users_me: return current_user.
MeReturn(s) ==
    /\ req[s].pc = "me_return"
    /\ req' = [req EXCEPT ![s] = Respond(s, 200, "")]
    /\ UNCHANGED <<users, posts, follows, likes, comments, last, now, held, files>>

\* POST /upload/image arrives with a bearer token and a file.
BeginUpload(S, s, T, hist) ==
    /\ CanBegin(S, s)
    /\ \E tok \in T, f \in Filenames :
        req' = [req EXCEPT ![s] = [Idle EXCEPT !.pc = "auth", !.op = "upload",
                    !.token = tok, !.filename = f,
                    !.pre = IF hist THEN Snapshot ELSE NoSnap]]
    /\ UNCHANGED <<users, posts, follows, likes, comments, last, now, held, files>>

\* upload_image: open the file under its client-supplied name and copy the
\* body; a failure of the write is answered 500 and may leave the file.
UploadWrite(s) ==
    /\ req[s].pc = "upload_write"
    /\ \E ok \in BOOLEAN :
        IF ok
        THEN /\ files' = files \cup {req[s].filename}
             /\ req' = [req EXCEPT ![s] = Respond(s, 201, "")]
        ELSE /\ files' \in {files, files \cup {req[s].filename}}
             /\ req' = [req EXCEPT ![s] = Respond(s, 500, "Failed to upload image")]
    /\ UNCHANGED <<users, posts, follows, likes, comments, last, now, held>>

\* The select with `&` in place of `|`.
ExistingUserBothMatch(email, username) ==
    LET Hit(row) == row.email = email /\ row.username = username
        rows == SelectSeq(users, Hit)
    IN  IF rows = <<>> THEN <<>> ELSE <<rows[1]>>

\* register_user: select(User).where(email matches | username matches).first()
ExistingUser(email, username) ==
    LET Hit(row) == row.email = email \/ row.username = username
        rows == SelectSeq(users, Hit)
    IN  IF rows = <<>> THEN <<>> ELSE <<rows[1]>>

\* register_user: the select for an existing user.
RegisterCheck(s) ==
    /\ req[s].pc = "reg_check"
    /\ req' = [req EXCEPT ![s] =
            IF ExistingUser(req[s].email, req[s].username) # <<>>
            THEN Respond(s, 400, "Email or username already registered")
            ELSE [req[s] EXCEPT !.pc = "reg_commit"]]
    /\ UNCHANGED <<users, posts, follows, likes, comments, last, now, held, files>>

\* register_user: session.add, session.commit, session.refresh.
RegisterCommit(s) ==
    /\ req[s].pc = "reg_commit"
    /\ IF UserUniqueViolated(users, req[s].email, req[s].username)
       THEN /\ req' = [req EXCEPT ![s] = Unhandled(s)]
            /\ UNCHANGED users
       ELSE /\ users' = Append(users,
                    UserRow(NextId(users), req[s].email, req[s].username,
                            HashPassword(req[s].password)))
            /\ req' = [req EXCEPT ![s] = Respond(s, 201, "")]
    /\ UNCHANGED <<posts, follows, likes, comments, last, now, held, files>>

\* The handler without its self-follow test.
NoSelfFollowTest(user_id_to_follow, current_user_id) == FALSE

\* follow_user: user_id_to_follow == current_user.id
IsSelfFollow(user_id_to_follow, current_user_id) == user_id_to_follow = current_user_id

\* follow_user: the self-follow test, then session.get(User, id).
FollowGet(s) ==
    /\ req[s].pc = "fol_get"
    /\ req' = [req EXCEPT ![s] =
            IF IsSelfFollow(req[s].arg, req[s].current_user)
            THEN Respond(s, 400, "Cannot follow yourself")
            ELSE IF NotFound(Get(users, req[s].arg))
            THEN Respond(s, 404, "User not found")
            ELSE [req[s] EXCEPT !.pc = "fol_check"]]
    /\ UNCHANGED <<users, posts, follows, likes, comments, last, now, held, files>>

\* The select with the two key columns exchanged.
ExistingFollowSwapped(current_user_id, user_id_to_follow) ==
    FirstInBag(follows, FollowRow(user_id_to_follow, current_user_id))

\* follow_user: select(Follow).where(follower_id == current user,
\* followed_id == user_id_to_follow).first()
ExistingFollow(current_user_id, user_id_to_follow) ==
    FirstInBag(follows, FollowRow(current_user_id, user_id_to_follow))

\* follow_user: the select for an existing follow row.
FollowCheck(s) ==
    /\ req[s].pc = "fol_check"
    /\ LET existing_follow == ExistingFollow(req[s].current_user, req[s].arg)
       IN  req' = [req EXCEPT ![s] =
                IF existing_follow # <<>>
                THEN Respond(s, 400, "Already following this user")
                ELSE [req[s] EXCEPT !.pc = "fol_commit"]]
    /\ UNCHANGED <<users, posts, follows, likes, comments, last, now, held, files>>

\* A follow that also adds the reverse edge.
FollowInsertMutual(follower_id, followed_id) ==
    {FollowRow(follower_id, followed_id), FollowRow(followed_id, follower_id)}

\* The rows follow_user adds to the session before it commits.
FollowInsertRows(follower_id, followed_id) == {FollowRow(follower_id, followed_id)}

\* follow_user: session.add, session.commit.
FollowCommit(s) ==
    /\ req[s].pc = "fol_commit"
    /\ LET rows == FollowInsertRows(req[s].current_user, req[s].arg)
       IN  IF \E row \in rows : FollowPKViolated(follows, row)
           THEN /\ req' = [req EXCEPT ![s] = Unhandled(s)]
                /\ UNCHANGED follows
           ELSE /\ follows' = follows (+) SetToBag(rows)
                /\ req' = [req EXCEPT ![s] = Respond(s, 201, "")]
    /\ UNCHANGED <<users, posts, likes, comments, last, now, held, files>>

\* create_post: session.add, session.commit, session.refresh.
PostCommit(s) ==
    /\ req[s].pc = "post_commit"
    /\ posts' = Append(posts, PostRow(NextId(posts), req[s].current_user))
    /\ req' = [req EXCEPT ![s] = Respond(s, 201, "")]
    /\ UNCHANGED <<users, follows, likes, comments, last, now, held, files>>

\* toggle_like_post: session.get(Post, post_id).
LikeGet(s) ==
    /\ req[s].pc = "like_get"
    /\ req' = [req EXCEPT ![s] =
            IF NotFound(Get(posts, req[s].arg))
            THEN Respond(s, 404, "Post not found")
            ELSE [req[s] EXCEPT !.pc = "like_check"]]
    /\ UNCHANGED <<users, posts, follows, likes, comments, last, now, held, files>>

\* The select without its user_id condition: any user's like of the post.
ExistingLikeAnyUser(current_user_id, post_id) ==
    LET rows == {row \in BagToSet(likes) : row.post_id = post_id}
    IN  IF rows = {} THEN <<>>
        ELSE <<CHOOSE row \in rows : \A other \in rows : row.user_id <= other.user_id>>

\* toggle_like_post: select(Like).where(user_id == current user,
\* post_id == post_id).first()
ExistingLike(current_user_id, post_id) ==
    FirstInBag(likes, LikeRow(current_user_id, post_id))

\* toggle_like_post: the select for an existing like row.
LikeCheck(s) ==
    /\ req[s].pc = "like_check"
    /\ req' = [req EXCEPT ![s] =
            [req[s] EXCEPT !.pc = "like_commit",
                !.existing = ExistingLike(req[s].current_user, req[s].arg)]]
    /\ UNCHANGED <<users, posts, follows, likes, comments, last, now, held, files>>

\* toggle_like_post: delete and commit when a like was found, otherwise add
\* and commit.  A DELETE that matches no row any more is not an error.
LikeCommit(s) ==
    /\ req[s].pc = "like_commit"
    /\ LET row == LikeRow(req[s].current_user, req[s].arg)
       IN  IF req[s].existing # <<>>
           THEN /\ likes' = DeleteRow(likes, req[s].existing[1])
                /\ req' = [req EXCEPT ![s] =
                        [Respond(s, 200, "Post unliked successfully")
                            EXCEPT !.liked = FALSE]]
           ELSE IF LikePKViolated(likes, row)
           THEN /\ req' = [req EXCEPT ![s] = Unhandled(s)]
                /\ UNCHANGED likes
           ELSE /\ likes' = InsertRow(likes, row)
                /\ req' = [req EXCEPT ![s] =
                        [Respond(s, 200, "Post liked successfully")
                            EXCEPT !.liked = TRUE]]
    /\ UNCHANGED <<users, posts, follows, comments, last, now, held, files>>

\* get_user_feed: the ids of current_user.following, plus the user's own id.
FollowingIds(user_id) == Append(Following(user_id), user_id)

FeedFollowing(s) ==
    /\ req[s].pc = "feed_following"
    /\ req' = [req EXCEPT ![s] =
            [req[s] EXCEPT !.pc = "feed_select",
                !.following_ids = FollowingIds(req[s].current_user)]]
    /\ UNCHANGED <<users, posts, follows, likes, comments, last, now, held, files>>

\* get_user_feed: the select of the posts, newest first.
FeedSelect(s) ==
    /\ req[s].pc = "feed_select"
    /\ req' = [req EXCEPT ![s] =
            [Respond(s, 200, "") EXCEPT !.feed = SelectFeed(posts, req[s].following_ids)]]
    /\ UNCHANGED <<users, posts, follows, likes, comments, last, now, held, files>>

\* `if comment_data.parent_comment_id:` (None and 0 are falsy).
Truthy(parent) == parent # <<>> /\ parent[1] # 0

\* create_comment_on_post: session.get(Post, post_id).
CommentGet(s) ==
    /\ req[s].pc = "com_get"
    /\ req' = [req EXCEPT ![s] =
            IF NotFound(Get(posts, req[s].arg))
            THEN Respond(s, 404, "Post not found")
            ELSE [req[s] EXCEPT !.pc =
                    IF Truthy(req[s].parent) THEN "com_parent" ELSE "com_commit"]]
    /\ UNCHANGED <<users, posts, follows, likes, comments, last, now, held, files>>

\* A parent check that does not compare the parent's post.
ParentRefusedIfMissing(parent_comment, post_id) == parent_comment = <<>>

\* create_comment_on_post: not parent_comment or parent_comment.post_id != post_id
ParentRefused(parent_comment, post_id) ==
    parent_comment = <<>> \/ parent_comment[1].post_id # post_id

\* create_comment_on_post: session.get(Comment, parent_comment_id).
CommentParent(s) ==
    /\ req[s].pc = "com_parent"
    /\ LET parent_comment == Get(comments, req[s].parent[1])
       IN  req' = [req EXCEPT ![s] =
                IF ParentRefused(parent_comment, req[s].arg)
                THEN Respond(s, 400,
                        "Parent comment not found or does not belong to this post")
                ELSE [req[s] EXCEPT !.pc = "com_commit"]]
    /\ UNCHANGED <<users, posts, follows, likes, comments, last, now, held, files>>

\* create_comment_on_post: session.add, session.commit, session.refresh.
CommentCommit(s) ==
    /\ req[s].pc = "com_commit"
    /\ comments' = Append(comments,
            CommentRow(NextId(comments), req[s].current_user, req[s].arg, req[s].parent))
    /\ req' = [req EXCEPT ![s] = Respond(s, 201, "")]
    /\ UNCHANGED <<users, posts, follows, likes, last, now, held, files>>

\* The response has been sent; the session is free again.
Finish(s, keep) ==
    /\ req[s].pc = "done"
    /\ req' = [req EXCEPT ![s] = Idle]
    /\ last' = IF keep /\ req[s].op \in {"toggle_like", "login"}
               THEN [op |-> req[s].op, user |-> req[s].current_user,
                     arg |-> req[s].arg, status |-> req[s].status,
                     detail |-> req[s].detail,
                     www_authenticate |-> req[s].www_authenticate,
                     email |-> req[s].email, password |-> req[s].password,
                     liked |-> req[s].liked, pre |-> req[s].pre]
               ELSE NoLast
    /\ UNCHANGED <<users, posts, follows, likes, comments, now, held, files>>

\* The client keeps the token of the login just answered.
FinishLogin(s) ==
    /\ req[s].pc = "done"
    /\ req[s].op = "login"
    /\ req[s].status = 200
    /\ held' = <<[token |-> req[s].access_token, uid |-> req[s].existing[1].id,
                  issued |-> now]>>
    /\ req' = [req EXCEPT ![s] = Idle]
    /\ last' = NoLast
    /\ UNCHANGED <<users, posts, follows, likes, comments, now, files>>

\* A minute passes between two requests.
Tick ==
    /\ \A s \in AllSessions : req[s].pc = "idle"
    /\ now + 1 \in Times
    /\ now' = now + 1
    /\ UNCHANGED <<users, posts, follows, likes, comments, req, last, held, files>>

Init ==
    /\ users = <<>>
    /\ posts = <<>>
    /\ follows = EmptyBag
    /\ likes = EmptyBag
    /\ comments = <<>>
    /\ req = [s \in AllSessions |-> Idle]
    /\ last = NoLast
    /\ now = 0
    /\ held = <<>>
    /\ files = {}

\* Registration alone, one request at a time, every (email, username) body.
NextRegister ==
    \E s \in OneSession :
        \/ BeginRegister(OneSession, s, Emails, Usernames, TRUE)
        \/ RegisterCheck(s)
        \/ RegisterCommit(s)
        \/ Finish(s, FALSE)

SpecRegister == Init /\ [][NextRegister]_vars

\* The body of the next registration of a client that registers fresh
\* identities: email and username number Len(users) + 1.
FreshIdent == {Len(users) + 1} \cap UserIds

\* POST /posts while the post table holds fewer than MaxPosts rows.
BeginCreatePost(S, s, T, hist) ==
    /\ Len(posts) + Pending("create_post") < MaxPosts
    /\ BeginAuthed(S, s, "create_post", T, {0}, hist)

\* POST /posts/{post_id}/comments with no parent_comment_id, while the
\* comment table holds fewer than MaxComments rows.
BeginCreateComment(S, s, T, A, hist) ==
    /\ Len(comments) + Pending("create_comment") < MaxComments
    /\ BeginAuthed(S, s, "create_comment", T, A, hist)

\* The social graph and the feed, one request at a time.
NextGraph ==
    \E s \in OneSession :
        \/ BeginRegister(OneSession, s, FreshIdent, FreshIdent, TRUE)
        \/ BeginAuthed(OneSession, s, "follow", Bearer(UserIds), UserIds, TRUE)
        \/ BeginCreatePost(OneSession, s, Bearer(UserIds), TRUE)
        \/ BeginAuthed(OneSession, s, "feed", Bearer(UserIds), {0}, TRUE)
        \/ Auth(s)
        \/ RegisterCheck(s)
        \/ RegisterCommit(s)
        \/ FollowGet(s)
        \/ FollowCheck(s)
        \/ FollowCommit(s)
        \/ PostCommit(s)
        \/ FeedFollowing(s)
        \/ FeedSelect(s)
        \/ Finish(s, FALSE)

SpecGraph == Init /\ [][NextGraph]_vars

\* Follow among requests of every writing kind, one request at a time;
\* posts, likes and comments are written by user 1.
NextFollow ==
    \E s \in OneSession :
        \/ BeginRegister(OneSession, s, FreshIdent, FreshIdent, TRUE)
        \/ BeginAuthed(OneSession, s, "follow", Bearer(UserIds), UserIds, TRUE)
        \/ BeginCreatePost(OneSession, s, Bearer({1}), TRUE)
        \/ BeginAuthed(OneSession, s, "toggle_like", Bearer({1}), PostIds, TRUE)
        \/ BeginCreateComment(OneSession, s, Bearer({1}), {1}, TRUE)
        \/ Auth(s)
        \/ RegisterCheck(s)
        \/ RegisterCommit(s)
        \/ FollowGet(s)
        \/ FollowCheck(s)
        \/ FollowCommit(s)
        \/ PostCommit(s)
        \/ LikeGet(s)
        \/ LikeCheck(s)
        \/ LikeCommit(s)
        \/ CommentGet(s)
        \/ CommentCommit(s)
        \/ Finish(s, FALSE)

SpecFollow == Init /\ [][NextFollow]_vars

\* Likes, one request at a time; posts are written by user 1.
NextLike ==
    \E s \in OneSession :
        \/ BeginRegister(OneSession, s, FreshIdent, FreshIdent, TRUE)
        \/ BeginCreatePost(OneSession, s, Bearer({1}), TRUE)
        \/ BeginAuthed(OneSession, s, "toggle_like", Bearer(UserIds), PostIds, TRUE)
        \/ Auth(s)
        \/ RegisterCheck(s)
        \/ RegisterCommit(s)
        \/ PostCommit(s)
        \/ LikeGet(s)
        \/ LikeCheck(s)
        \/ LikeCommit(s)
        \/ Finish(s, TRUE)

SpecLike == Init /\ [][NextLike]_vars

\* No session is serving a request.
Quiet == \A s \in AllSessions : req[s].pc = "idle"

\* No session is serving a registration or a post creation.
NoSetup == \A s \in AllSessions : req[s].op \notin {"register", "create_post"}

\* Likes, two sessions serving concurrently the toggle requests of every
\* user on post 1; registrations and post creations arrive while no other
\* request is being served.
NextLikeConc ==
    \E s \in TwoSessions :
        \/ Quiet /\ BeginRegister(TwoSessions, s, FreshIdent, FreshIdent, FALSE)
        \/ Quiet /\ BeginCreatePost(TwoSessions, s, Bearer({1}), FALSE)
        \/ NoSetup /\ BeginAuthed(TwoSessions, s, "toggle_like", Bearer(UserIds), {1}, FALSE)
        \/ Auth(s)
        \/ RegisterCheck(s)
        \/ RegisterCommit(s)
        \/ PostCommit(s)
        \/ LikeGet(s)
        \/ LikeCheck(s)
        \/ LikeCommit(s)
        \/ Finish(s, FALSE)

SpecLikeConc == Init /\ [][NextLikeConc]_vars

\* Registration, two sessions serving requests concurrently; the bodies draw
\* email and username from MaxUsers values each.
NextRegisterConc ==
    \E s \in TwoSessions :
        \/ BeginRegister(TwoSessions, s, UserIds, UserIds, FALSE)
        \/ RegisterCheck(s)
        \/ RegisterCommit(s)
        \/ Finish(s, FALSE)

SpecRegisterConc == Init /\ [][NextRegisterConc]_vars

\* The token the client holds with its signature broken.
Tampered(token) == [token EXCEPT !.signed = FALSE]

\* The tokens a request may carry: the held token, the held token tampered
\* with, and tokens signed with the published SECRET_KEY that carry no
\* user_id or the id of no stored user.
PresentedTokens ==
    {held[i].token : i \in 1..Len(held)}
    \cup {Tampered(held[i].token) : i \in 1..Len(held)}
    \cup {Token(<<>>, 0, ACCESS_TOKEN_EXPIRE_MINUTES, TRUE),
          Token(<<MaxUsers + 1>>, 0, ACCESS_TOKEN_EXPIRE_MINUTES, TRUE)}

\* Login and token resolution as the clock advances, one request at a time.
NextAuth ==
    \/ Tick
    \/ \E s \in OneSession :
        \/ BeginRegister(OneSession, s, FreshIdent, FreshIdent, TRUE)
        \/ BeginLogin(OneSession, s, UserIds, TRUE)
        \/ BeginAuthed(OneSession, s, "me", PresentedTokens, {0}, TRUE)
        \/ Auth(s)
        \/ RegisterCheck(s)
        \/ RegisterCommit(s)
        \/ LoginSelect(s)
        \/ MeReturn(s)
        \/ FinishLogin(s)
        \/ Finish(s, FALSE)

SpecAuth == Init /\ [][NextAuth]_vars

\* Registrations and logins, one request at a time.
NextLogin ==
    \E s \in OneSession :
        \/ BeginRegister(OneSession, s, FreshIdent, FreshIdent, TRUE)
        \/ BeginLogin(OneSession, s, UserIds, TRUE)
        \/ RegisterCheck(s)
        \/ RegisterCommit(s)
        \/ LoginSelect(s)
        \/ Finish(s, TRUE)

SpecLogin == Init /\ [][NextLogin]_vars

\* Tokens that must not resolve: user 1's token tampered with, user 1's
\* token with an exp before the first clock reading, and tokens signed with
\* the published SECRET_KEY carrying no user_id or the id of no stored user.
UnresolvableTokens ==
    {Tampered(SignedToken(1)),
     Token(<<1>>, 1, 0 - 1, TRUE),
     Token(<<>>, 0, ACCESS_TOKEN_EXPIRE_MINUTES, TRUE),
     Token(<<MaxUsers + 1>>, 0, ACCESS_TOKEN_EXPIRE_MINUTES, TRUE)}

\* The tokens of the first two users and the tokens that must not resolve.
GatedTokens == Bearer({1, 2}) \cup UnresolvableTokens

Rows == Len(posts) + Len(comments) + BagCardinality(likes) + BagCardinality(follows)

\* Every route behind get_current_user, one request at a time, with tokens
\* that resolve and tokens that do not, while the store holds fewer than
\* MaxRows rows besides users.
NextGated ==
    \E s \in OneSession :
        \/ BeginRegister(OneSession, s, FreshIdent, FreshIdent, TRUE)
        \/ Rows < MaxRows /\ BeginCreatePost(OneSession, s, GatedTokens, TRUE)
        \/ Rows < MaxRows /\ BeginAuthed(OneSession, s, "follow", GatedTokens, UserIds, TRUE)
        \/ Rows < MaxRows /\ BeginAuthed(OneSession, s, "toggle_like", GatedTokens, {1}, TRUE)
        \/ Rows < MaxRows /\ BeginCreateComment(OneSession, s, GatedTokens, {1}, TRUE)
        \/ BeginAuthed(OneSession, s, "feed", GatedTokens, {0}, TRUE)
        \/ BeginAuthed(OneSession, s, "me", GatedTokens, {0}, TRUE)
        \/ BeginUpload(OneSession, s, GatedTokens, TRUE)
        \/ Auth(s)
        \/ RegisterCheck(s)
        \/ RegisterCommit(s)
        \/ FollowGet(s)
        \/ FollowCheck(s)
        \/ FollowCommit(s)
        \/ PostCommit(s)
        \/ LikeGet(s)
        \/ LikeCheck(s)
        \/ LikeCommit(s)
        \/ CommentGet(s)
        \/ CommentCommit(s)
        \/ FeedFollowing(s)
        \/ FeedSelect(s)
        \/ MeReturn(s)
        \/ UploadWrite(s)
        \/ Finish(s, FALSE)

SpecGated == Init /\ [][NextGated]_vars

\* The parent_comment_id of a CommentCreate body: absent, 0, or a comment id.
ParentIds == {<<>>, <<0>>} \cup {<<c>> : c \in CommentIds}

\* POST /posts/{post_id}/comments with a body that may name a parent, while
\* the comment table holds fewer than MaxComments rows.
BeginReply(S, s, T, A, P, hist) ==
    /\ Len(comments) + Pending("create_comment") < MaxComments
    /\ CanBegin(S, s)
    /\ \E tok \in T, a \in A, p \in P :
        req' = [req EXCEPT ![s] = [Idle EXCEPT !.pc = "auth", !.op = "create_comment",
                    !.token = tok, !.arg = a, !.parent = p,
                    !.pre = IF hist THEN Snapshot ELSE NoSnap]]
    /\ UNCHANGED <<users, posts, follows, likes, comments, last, now, held, files>>

\* Comments and replies, one request at a time; user 1 writes the posts and
\* the first two users comment.
NextComment ==
    \E s \in OneSession :
        \/ BeginRegister(OneSession, s, FreshIdent, FreshIdent, TRUE)
        \/ BeginCreatePost(OneSession, s, Bearer({1}), TRUE)
        \/ BeginReply(OneSession, s, Bearer({1, 2}), PostIds, ParentIds, TRUE)
        \/ Auth(s)
        \/ RegisterCheck(s)
        \/ RegisterCommit(s)
        \/ PostCommit(s)
        \/ CommentGet(s)
        \/ CommentParent(s)
        \/ CommentCommit(s)
        \/ Finish(s, FALSE)

SpecComment == Init /\ [][NextComment]_vars

-----------------------------------------------------------------------------
\* Properties

Done(s, op) == req[s].pc = "done" /\ req[s].op = op

\* The ids the follow rows of `bag` give user u as followed.
FollowedIn(bag, u) ==
    {f.followed_id : f \in {g \in BagToSet(bag) : g.follower_id = u}}

FeedScope(u) == {u} \cup FollowedIn(follows, u)

InScopeIndexes(u) == {i \in 1..Len(posts) : posts[i].user_id \in FeedScope(u)}

InScopePosts(u) == {posts[i] : i \in InScopeIndexes(u)}

\* The request just answered is the second of two successive toggles of one
\* user on one post, the first of which found no like and succeeded.
SecondToggle(s) ==
    /\ Done(s, "toggle_like")
    /\ last.op = "toggle_like"
    /\ last.status = 200
    /\ last.user = req[s].current_user
    /\ last.arg = req[s].arg
    /\ ~BagIn(LikeRow(last.user, last.arg), last.pre.likes)

\* C1: two successive toggles by one user on one post, starting with no like
\* of that user on that post, answer liked=true then liked=false, and leave
\* the like table as it was before the first.
C1_ToggleInvolution ==
    \A s \in OneSession :
        SecondToggle(s) =>
            /\ last.liked = TRUE
            /\ req[s].status = 200
            /\ req[s].liked = FALSE
            /\ likes = last.pre.likes

C1_Witness == SecondToggle(1) /\ likes # EmptyBag

\* A toggle that found no like and is about to insert one.
AboutToInsert(s) ==
    /\ req[s].op = "toggle_like"
    /\ req[s].pc = "like_commit"
    /\ req[s].existing = <<>>

\* C2: no two concurrent toggles of one user on one post both find the like
\* absent and both go on to insert it.
C2_NoDoubleAbsentInsert ==
    \A s, t \in TwoSessions :
        (/\ s # t
         /\ req[s].current_user = req[t].current_user
         /\ req[s].arg = req[t].arg)
        => ~(AboutToInsert(s) /\ AboutToInsert(t))

\* C3: no toggle request ends in an unhandled fault (the insert the store
\* rejects is caught).
C3_NoUnhandledToggleFault ==
    \A s \in AllSessions :
        Done(s, "toggle_like") => req[s].status # 500

\* C4: the like table holds at most one row for each (user id, post id).
C4_OneLikePerUserPost ==
    \A u \in UserIds, p \in PostIds : CopiesIn(LikeRow(u, p), likes) <= 1

C4_Witness ==
    \E s \in TwoSessions :
        /\ Done(s, "toggle_like")
        /\ req[s].status = 500
        /\ CopiesIn(LikeRow(req[s].current_user, req[s].arg), likes) = 1

FeedDone(s) == Done(s, "feed") /\ req[s].status = 200

\* C5: the feed of user U holds exactly the posts whose owner is U or a user
\* U follows, each once; it is empty when U follows nobody and has no posts.
C5_FeedExactlyScope ==
    \A s \in OneSession :
        FeedDone(s) =>
            LET U == req[s].current_user
                feed == req[s].feed
            IN  /\ SeqToSet(feed) = InScopePosts(U)
                /\ Len(feed) = Cardinality(InScopePosts(U))
                /\ (/\ FollowedIn(follows, U) = {}
                    /\ \A i \in 1..Len(posts) : posts[i].user_id # U)
                   => feed = <<>>

C5_Witness ==
    /\ FeedDone(1)
    /\ \E i, j \in 1..Len(req[1].feed) :
        /\ req[1].feed[i].user_id = req[1].current_user
        /\ req[1].feed[j].user_id # req[1].current_user

\* C6: the feed is in strictly descending post id order, and its first
\* element is the most recently created post of the feed scope.
C6_FeedNewestFirst ==
    \A s \in OneSession :
        FeedDone(s) =>
            LET U == req[s].current_user
                feed == req[s].feed
            IN  /\ \A i, j \in 1..Len(feed) : i < j => feed[i].id > feed[j].id
                /\ InScopeIndexes(U) # {} =>
                    /\ feed # <<>>
                    /\ feed[1] = posts[Max(InScopeIndexes(U))]

C6_Witness ==
    /\ FeedDone(1)
    /\ Len(req[1].feed) >= 2
    /\ req[1].feed[1].user_id # req[1].current_user

SelfFollow(s) ==
    /\ Done(s, "follow")
    /\ req[s].current_user # 0
    /\ req[s].arg = req[s].current_user

\* C7: a user's follow of themself is refused as invalid and adds no edge; no
\* follow edge has follower id equal to followed id.
C7_NoSelfFollow ==
    /\ \A s \in OneSession :
        SelfFollow(s) =>
            /\ req[s].status = 400
            /\ req[s].detail = "Cannot follow yourself"
            /\ follows = req[s].pre.follows
    /\ \A f \in BagToSet(follows) : f.follower_id # f.followed_id

C7_Witness == SelfFollow(1) /\ follows # EmptyBag

RepeatedFollow(s) ==
    /\ Done(s, "follow")
    /\ req[s].current_user # 0
    /\ BagIn(FollowRow(req[s].current_user, req[s].arg), req[s].pre.follows)

\* C8: a follow of a user already followed is refused as a conflict and leaves
\* the follow edges unchanged; there is at most one edge per ordered pair.
C8_RepeatedFollowRefused ==
    /\ \A s \in OneSession :
        RepeatedFollow(s) =>
            /\ req[s].status = 400
            /\ req[s].detail = "Already following this user"
            /\ follows = req[s].pre.follows
    /\ \A a, b \in UserIds : CopiesIn(FollowRow(a, b), follows) <= 1

C8_Witness == RepeatedFollow(1)

FollowSucceeded(s) == Done(s, "follow") /\ req[s].status = 201

\* C9: a successful follow of B by A adds the one edge (A, B) and changes no
\* other edge, user, post, comment or like; if A followed nobody, A then
\* follows exactly B, and the users B follows are unchanged.
C9_FollowAddsOneEdge ==
    \A s \in OneSession :
        FollowSucceeded(s) =>
            LET A == req[s].current_user
                B == req[s].arg
                pre == req[s].pre
            IN  /\ ~BagIn(FollowRow(A, B), pre.follows)
                /\ follows = InsertRow(pre.follows, FollowRow(A, B))
                /\ users = pre.users
                /\ posts = pre.posts
                /\ likes = pre.likes
                /\ comments = pre.comments
                /\ FollowedIn(pre.follows, A) = {} => FollowedIn(follows, A) = {B}
                /\ FollowedIn(follows, B) = FollowedIn(pre.follows, B)

C9_Witness ==
    /\ FollowSucceeded(1)
    /\ FollowedIn(req[1].pre.follows, req[1].current_user) = {}
    /\ FollowedIn(follows, req[1].arg) = {}
    /\ posts # <<>>
    /\ likes # EmptyBag
    /\ comments # <<>>

\* The registration just answered named an email or a username that a stored
\* user had when the request arrived.
DuplicateRegister(s) ==
    /\ Done(s, "register")
    /\ \E i \in 1..Len(req[s].pre.users) :
        \/ req[s].pre.users[i].email = req[s].email
        \/ req[s].pre.users[i].username = req[s].username

\* C10: a registration whose email or whose username a stored user already
\* has is refused as a conflict and creates no user; no two stored users share
\* an email or a username.
C10_DuplicateRegisterRefused ==
    /\ \A s \in OneSession :
        DuplicateRegister(s) =>
            /\ req[s].status = 400
            /\ req[s].detail = "Email or username already registered"
            /\ users = req[s].pre.users
    /\ \A i, j \in 1..Len(users) :
        i # j => /\ users[i].email # users[j].email
                 /\ users[i].username # users[j].username

C10_Witness ==
    /\ DuplicateRegister(1)
    /\ \E i \in 1..Len(users) : users[i].email = req[1].email
    /\ \A i \in 1..Len(users) : users[i].username # req[1].username
    /\ Len(users) >= 2

\* C11: a registration request is answered with the conflict error, never
\* with an unhandled store fault, also when another registration that shares
\* its email or username is served concurrently.
C11_NoUnhandledRegisterFault ==
    \A s \in TwoSessions :
        Done(s, "register") => req[s].status \in {201, 400}

\* The request just answered presented the token the client holds, strictly
\* before the token's expiry instant.
HeldTokenInTime(s) ==
    /\ Done(s, "me")
    /\ held # <<>>
    /\ req[s].token = held[1].token
    /\ now < held[1].token.exp

\* C12: a login with a registered user's email and correct password is
\* answered with a token, and that token, presented before it expires,
\* resolves to the id of the user who authenticated, whatever registrations
\* and logins happened in between.
C12_LoginTokenResolves ==
    \A s \in OneSession :
        /\ (/\ Done(s, "login")
            /\ req[s].password = RegisteredPassword
            /\ \E i \in 1..Len(users) : users[i].email = req[s].email)
           => (req[s].status = 200 /\ req[s].access_token # NoToken)
        /\ HeldTokenInTime(s)
           => (/\ req[s].status = 200
               /\ req[s].current_user = held[1].uid)

\* The second user's token resolves, minutes after its issue, with both
\* users registered.
C12_Witness ==
    \E s \in OneSession :
        /\ HeldTokenInTime(s)
        /\ req[s].status = 200
        /\ held[1].uid = 2
        /\ now > held[1].issued

\* The token of the request just answered is tampered, carries no user id,
\* names an id no stored user has, or is the held token presented `late`
\* minutes or more after its issue.
Unresolvable(s, late) ==
    \/ ~req[s].token.signed
    \/ req[s].token.user_id = <<>>
    \/ \A i \in 1..Len(users) : users[i].id # req[s].token.user_id[1]
    \/ /\ held # <<>>
       /\ req[s].token = held[1].token
       /\ now - held[1].issued >= late

AuthError(s) ==
    /\ req[s].status = 401
    /\ req[s].detail = "Could not validate credentials"

\* C13: resolution fails with the authentication error for every token that
\* is tampered, carries no user id, names an id that is not stored, or is
\* presented 30 minutes or more after its issue; the expiry instant of a
\* token is its issue time plus 30 minutes, whatever use was made of it.
C13_ResolutionFails ==
    /\ \A s \in OneSession :
        (Done(s, "me") /\ Unresolvable(s, ACCESS_TOKEN_EXPIRE_MINUTES)) => AuthError(s)
    /\ held # <<>> => held[1].token.exp = held[1].issued + ACCESS_TOKEN_EXPIRE_MINUTES

\* No stored user has the email.
UnknownEmail(email) == \A i \in 1..Len(users) : users[i].email # email

\* A stored user has the email and the password is not that user's.
WrongPassword(email, password) ==
    \E i \in 1..Len(users) :
        /\ users[i].email = email
        /\ users[i].hashed_password # HashPassword(password)

\* The login just answered and the login answered before it failed for the
\* two different causes.
TwoCauses(s) ==
    /\ Done(s, "login")
    /\ last.op = "login"
    /\ \/ UnknownEmail(last.email) /\ WrongPassword(req[s].email, req[s].password)
       \/ WrongPassword(last.email, last.password) /\ UnknownEmail(req[s].email)

\* C14: a login with an email no user has and a login with a registered
\* email and a wrong password are answered with the same status, message and
\* headers, and neither changes the stored state.
C14_LoginFailuresIndistinguishable ==
    \A s \in OneSession :
        TwoCauses(s)
        => (/\ req[s].status = 401
            /\ req[s].status = last.status
            /\ req[s].detail = last.detail
            /\ req[s].www_authenticate = last.www_authenticate
            /\ last.pre = req[s].pre
            /\ Snapshot = req[s].pre)

\* An unknown email was refused, then a wrong password for a stored user.
C14_Witness ==
    \E s \in OneSession :
        /\ TwoCauses(s)
        /\ UnknownEmail(last.email)
        /\ req[s].status = 401

\* C15: every authentication failure, raised by login or by token
\* resolution, carries the one generic message "Could not validate
\* credentials".
C15_OneGenericMessage ==
    \A s \in OneSession :
        (req[s].pc = "done" /\ req[s].op \in {"login", "me"} /\ req[s].status = 401)
        => req[s].detail = "Could not validate credentials"

GatedOps == {"create_post", "follow", "toggle_like", "create_comment", "feed",
             "me", "upload"}

\* The token is intact, not past its exp, and names a stored user.
Resolves(token) ==
    /\ token.signed
    /\ token.exp >= now
    /\ token.user_id # <<>>
    /\ \E i \in 1..Len(users) : users[i].id = token.user_id[1]

\* Every row the tables hold and `pre` did not is owned by user u, and the
\* user table is as in `pre`.
NewRowsOwnedBy(pre, u) ==
    /\ users = pre.users
    /\ \A i \in 1..Len(posts) :
        (i > Len(pre.posts) \/ posts[i] # pre.posts[i]) => posts[i].user_id = u
    /\ \A i \in 1..Len(comments) :
        (i > Len(pre.comments) \/ comments[i] # pre.comments[i]) => comments[i].user_id = u
    /\ \A l \in BagToSet(likes (-) pre.likes) : l.user_id = u
    /\ \A f \in BagToSet(follows (-) pre.follows) : f.follower_id = u

\* C16: a request to a gated route whose token does not resolve is answered
\* with the authentication error and leaves the store as it was; every row a
\* request with a resolving token creates is owned by the user the token
\* names.
C16_ResolutionGates ==
    \A s \in OneSession :
        (req[s].pc = "done" /\ req[s].op \in GatedOps)
        => IF Resolves(req[s].token)
           THEN NewRowsOwnedBy(req[s].pre, req[s].token.user_id[1])
           ELSE AuthError(s) /\ Snapshot = req[s].pre

\* A post creation with registered user 1's token, tampered with, refused.
C16_Witness ==
    \E s \in OneSession :
        /\ Done(s, "create_post")
        /\ ~req[s].token.signed
        /\ Resolves([req[s].token EXCEPT !.signed = TRUE])
        /\ req[s].status = 401

\* The body of the comment request just answered names as parent a comment
\* that was stored on another post when the request arrived.
ParentOnOtherPost(s) ==
    /\ Done(s, "create_comment")
    /\ req[s].parent # <<>>
    /\ \E i \in 1..Len(req[s].pre.comments) :
        /\ req[s].pre.comments[i].id = req[s].parent[1]
        /\ req[s].pre.comments[i].post_id # req[s].arg

\* C17: a comment on post P whose parent_comment_id references a stored
\* comment of another post is refused and no comment is stored.
C17_ParentOnOtherPostRefused ==
    \A s \in OneSession :
        ParentOnOtherPost(s)
        => (req[s].status >= 400 /\ comments = req[s].pre.comments)

\* A reply on an existing post to a comment of another post, by a
\* registered user, refused.
C17_Witness ==
    \E s \in OneSession :
        /\ ParentOnOtherPost(s)
        /\ Get(posts, req[s].arg) # <<>>
        /\ req[s].status = 400

\* The comment request just answered passed authentication, and its post was
\* not stored when it arrived, or its body supplies a parent_comment_id that
\* referenced no stored comment of that post.
PostOrParentMissing(s) ==
    /\ Done(s, "create_comment")
    /\ req[s].status # 401
    /\ \/ Get(req[s].pre.posts, req[s].arg) = <<>>
       \/ /\ req[s].parent # <<>>
          /\ \A i \in 1..Len(req[s].pre.comments) :
                \/ req[s].pre.comments[i].id # req[s].parent[1]
                \/ req[s].pre.comments[i].post_id # req[s].arg

\* C18: a comment request is answered 404 and stores no comment whenever its
\* post does not exist or it supplies a parent_comment_id, 0 included, that
\* references no stored comment of that post.
C18_NotFoundOnMissingPostOrParent ==
    \A s \in OneSession :
        PostOrParentMissing(s)
        => (req[s].status = 404 /\ comments = req[s].pre.comments)

\* The columns of the stored comment with index i include a parent reference.
HasParent(i) == "parent_comment_id" \in DOMAIN comments[i]

\* C20: a comment created with a parent_comment_id is stored with that parent
\* reference, and every stored comment whose parent is set has as parent a
\* stored comment of the same post.
C20_ParentPersisted ==
    /\ \A s \in OneSession :
        (Done(s, "create_comment") /\ req[s].status = 201 /\ Truthy(req[s].parent))
        => (/\ HasParent(Len(comments))
            /\ comments[Len(comments)].parent_comment_id = req[s].parent)
    /\ \A i \in 1..Len(comments) :
        (HasParent(i) /\ comments[i].parent_comment_id # <<>>)
        => \E j \in 1..Len(comments) :
            /\ comments[j].id = comments[i].parent_comment_id[1]
            /\ comments[j].post_id = comments[i].post_id

\* The toggle request just answered passed authentication and named a post
\* id that no stored post had when it arrived.
ToggleOnMissingPost(s) ==
    /\ Done(s, "toggle_like")
    /\ req[s].status # 401
    /\ \A i \in 1..Len(req[s].pre.posts) : req[s].pre.posts[i].id # req[s].arg

\* The follow request just answered passed authentication and named a user
\* id that no stored user had when it arrived.
FollowOfMissingUser(s) ==
    /\ Done(s, "follow")
    /\ req[s].status # 401
    /\ \A i \in 1..Len(req[s].pre.users) : req[s].pre.users[i].id # req[s].arg

\* C19: a toggle on a post id that does not exist is answered 404 and neither
\* creates nor deletes a like; a follow of a user id that does not exist is
\* answered 404 and inserts no edge.
C19_MissingTargetNotFound ==
    \A s \in OneSession :
        /\ ToggleOnMissingPost(s)
           => (req[s].status = 404 /\ likes = req[s].pre.likes)
        /\ FollowOfMissingUser(s)
           => (req[s].status = 404 /\ follows = req[s].pre.follows)

\* A toggle on post 2 refused while post 1 is stored and liked.
C19_Witness ==
    \E s \in OneSession :
        /\ ToggleOnMissingPost(s)
        /\ req[s].status = 404
        /\ Len(posts) = 1
        /\ likes # EmptyBag

\* The like table `bag` holds a row for user u and post p.
PresentIn(bag, u, p) == CopiesIn(LikeRow(u, p), bag) > 0

\* This step is the commit of a toggle of user u on post p that is answered
\* 200.
ToggleAnswered(s, u, p) ==
    /\ req[s].op = "toggle_like"
    /\ req[s].pc = "like_commit"
    /\ req[s].current_user = u
    /\ req[s].arg = p
    /\ req'[s].pc = "done"
    /\ req'[s].status = 200

\* The presence of each like (u, p) changes in a step exactly when the step
\* completes a successful toggle of u on p.
LikeFlipStep ==
    \A u \in UserIds, p \in PostIds :
        (PresentIn(likes', u, p) # PresentIn(likes, u, p))
        <=> \E s \in AllSessions : ToggleAnswered(s, u, p)

\* C21: the presence of the like (U, P) flips on every successful toggle of U
\* on P and is changed by no other request: not by a registration, a post
\* creation, or a toggle of another user or on another post.
C21_LikeFlipsOnlyOnToggle == [][LikeFlipStep]_vars

StoredUserIds == {users[i].id : i \in 1..Len(users)}

StoredPostIds == {posts[i].id : i \in 1..Len(posts)}

\* Every foreign reference of every stored row points to a stored row.
ReferencesStored ==
    /\ \A f \in BagToSet(follows) :
        f.follower_id \in StoredUserIds /\ f.followed_id \in StoredUserIds
    /\ \A l \in BagToSet(likes) :
        l.user_id \in StoredUserIds /\ l.post_id \in StoredPostIds
    /\ \A i \in 1..Len(comments) :
        comments[i].user_id \in StoredUserIds /\ comments[i].post_id \in StoredPostIds
    /\ \A i \in 1..Len(posts) : posts[i].user_id \in StoredUserIds

\* A step keeps the owner of every post and comment that stays stored, and
\* rewrites no like or follow row: rows of those tables are only added or
\* only removed.
OwnersKept ==
    /\ \A i \in 1..Len(posts), j \in 1..Len(posts') :
        posts'[j].id = posts[i].id => posts'[j].user_id = posts[i].user_id
    /\ \A i \in 1..Len(comments), j \in 1..Len(comments') :
        comments'[j].id = comments[i].id => comments'[j].user_id = comments[i].user_id
    /\ \/ BagToSet(likes) \subseteq BagToSet(likes')
       \/ BagToSet(likes') \subseteq BagToSet(likes)
    /\ \/ BagToSet(follows) \subseteq BagToSet(follows')
       \/ BagToSet(follows') \subseteq BagToSet(follows)

\* C22: in every reachable state every follow edge references two stored
\* users, every like and every comment a stored user and a stored post, and
\* every post a stored user; no step changes the owner of a stored row.
C22_ReferentialIntegrity == []ReferencesStored /\ [][OwnersKept]_vars

\* A follow edge, a post, a like and a comment are all stored.
C22_Witness ==
    /\ follows # EmptyBag
    /\ likes # EmptyBag
    /\ Len(posts) >= 1
    /\ Len(comments) >= 1
====
